---- MODULE Spec2Model ----
(***************************************************************************)
(* Model of wyrm/ringbuffer.py: class RingBuffer (a fixed-capacity         *)
(* circular buffer of rows) with its constructor, append and get.          *)
(*                                                                         *)
(* A 2-d ndarray is a record [w |-> number of columns, r |-> sequence of   *)
(* rows]; a row is a sequence of w values.  Slicing and slice assignment   *)
(* follow Python/numpy: negative indices count from the end, indices are   *)
(* clamped to the length, and an assignment broadcasts a length-1 axis.    *)
(***************************************************************************)
EXTENDS Integers, Sequences, FiniteSets, TLC

\* ------------------------------------------------------------------ bounds
MaxCap   == 3      \* largest capacity (shape[0]) tried
MaxCh    == 1      \* largest channel count (shape[1]) tried
NumVals  == 2      \* number of distinct sample values
MaxTotal == 5      \* largest total number of rows passed to append
MaxCalls == 4      \* largest number of append calls
StreamCap   == 4   \* largest capacity tried with a numbered stream
StreamChunk == 5   \* longest chunk of a numbered stream
StreamTotal == 10  \* rows of a numbered stream
StreamCalls == 3   \* append calls of a numbered stream
WidthTotal  == 3   \* rows passed to append when row widths vary

Vals == 1..NumVals

Min(a, b) == IF a < b THEN a ELSE b
Max(a, b) == IF a > b THEN a ELSE b

\* All rows with c columns.
RowsOf(c) == [1..c -> Vals]

\* The content of a storage row that np.empty allocated and nobody wrote.
Uninit == <<0>>

\* ------------------------------------------------------- Python / numpy
\* A slice index normalised against a sequence of length n (slice.indices).
Norm(i, n) == IF i < 0 THEN Max(i + n, 0) ELSE Min(i, n)

\* a[start:stop] along axis 0
Slice(a, start, stop) ==
    LET n  == Len(a.r)
        lo == Norm(start, n)
        hi == Norm(stop, n)
    IN  [w |-> a.w, r |-> IF hi > lo THEN SubSeq(a.r, lo + 1, hi) ELSE <<>>]

\* a[start:]
SliceFrom(a, start) == Slice(a, start, Len(a.r))

\* a[:stop]
SliceTo(a, stop) == Slice(a, 0, stop)

\* A row of width 1 stretched over c columns (a row of width c is kept).
Bcast(row, c) == IF Len(row) = c THEN row ELSE [j \in 1..c |-> row[1]]

\* dst[start:stop] = src is accepted iff src broadcasts to the destination.
CanAssign(dst, start, stop, src) ==
    LET n  == Len(dst.r)
        lo == Norm(start, n)
        hi == Norm(stop, n)
        m  == Max(hi - lo, 0)
        k  == Len(src.r)
    IN  (k = m \/ k = 1) /\ (src.w = dst.w \/ src.w = 1)

\* dst after dst[start:stop] = src (when CanAssign holds)
Assign(dst, start, stop, src) ==
    LET n  == Len(dst.r)
        lo == Norm(start, n)
        hi == Norm(stop, n)
        k  == Len(src.r)
    IN  [w |-> dst.w,
         r |-> [i \in 1..n |->
                  IF i > lo /\ i <= hi
                  THEN Bcast(src.r[IF k = 1 THEN 1 ELSE i - lo], dst.w)
                  ELSE dst.r[i]]]

\* np.concatenate([a, b], axis=0): a new array
Concatenate(a, b) == [w |-> a.w, r |-> a.r \o b.r]

\* np.empty(shape): raises ValueError on a negative dimension
EmptyOk(s) == s[1] >= 0 /\ s[2] >= 0

Empty(s) == [w |-> s[2], r |-> [i \in 1..s[1] |-> Uninit]]

\* ------------------------------------------------------------------ state
VARIABLES
    built,    \* "none" before the constructor ran, "ok", or "error" (it raised)
    shape,    \* self.shape = (capacity, channels)
    data,     \* self.data
    full,     \* self.full
    idx,      \* self.idx
    raised,   \* the last call of append ended in an exception
    ret,      \* the object the last get() returned
    retval,   \* the rows that object held when it was returned
    hist,     \* every row passed to append so far, in order
    calls     \* len(data) of every append call so far, in order

vars == <<built, shape, data, full, idx, raised, ret, retval, hist, calls>>

NoArray == [w |-> 0, r |-> <<>>]

Init ==
    /\ built = "none"
    /\ shape = <<0, 0>>
    /\ data = NoArray
    /\ full = FALSE
    /\ idx = 0
    /\ raised = FALSE
    /\ ret = [view |-> FALSE, lo |-> 0, hi |-> 0, own |-> NoArray]
    /\ retval = NoArray
    /\ hist = <<>>
    /\ calls = <<>>

\* --------------------------------------------------- objects get() returns
\* self.data[lo:hi] by basic slicing: a view that shares self.data
BasicSlice(lo, hi) == [view |-> TRUE, lo |-> lo, hi |-> hi, own |-> NoArray]

\* An array that owns its rows
Owned(a) == [view |-> FALSE, lo |-> 0, hi |-> 0, own |-> a]

\* The rows an object shows while the buffer's storage is d
Deref(obj, d) == IF obj.view THEN Slice(d, obj.lo, obj.hi) ELSE obj.own

\* obj.copy()
Copy(obj, d) == Owned(Deref(obj, d))

\* What reading the rows of seq can give: a row nobody wrote reads as anything
RECURSIVE Reads(_, _)
Reads(seq, c) ==
    IF seq = <<>> THEN {<<>>}
    ELSE LET cell == IF Head(seq) = Uninit THEN RowsOf(c) ELSE {Head(seq)}
         IN  {<<h>> \o t : h \in cell, t \in Reads(Tail(seq), c)}

\* ------------------------------------------------------------ constructor
RingBufferInit(s) ==
    /\ built = "none"
    /\ IF EmptyOk(s)
       THEN /\ built' = "ok"
            /\ shape' = s
            /\ data' = Empty(s)
            /\ full' = FALSE
            /\ idx' = 0
       ELSE /\ built' = "error"
            /\ UNCHANGED <<shape, data, full, idx>>
    /\ UNCHANGED <<raised, ret, retval, hist, calls>>

\* ----------------------------------------------------------------- append
\* Truncate keeping the first rows of the input: data[:self.shape[0]]
Truncate_head(d, cap) == IF Len(d.r) > cap THEN SliceTo(d, cap) ELSE d

\* Truncate left out: the input is used as it came
Truncate_none(d, cap) == d

\* if len(data) > self.shape[0]: data = data[-self.shape[0]:]
Truncate(d, cap) == IF Len(d.r) > cap THEN SliceFrom(d, -cap) ELSE d

\* The test written with <= instead of <
Fits_le(i, n, cap) == i + n <= cap

\* if self.idx + len(data) < self.shape[0]
Fits(i, n, cap) == i + n < cap

\* The buffer fields append reads and writes
Fields == [data |-> data, full |-> full, idx |-> idx, raised |-> FALSE]

\* The simple branch without self.idx += len(data)
SimpleBranch_noadvance(st, d) ==
    LET n == Len(d.r)
    IN  IF CanAssign(st.data, st.idx, st.idx + n, d)
        THEN [st EXCEPT !.data = Assign(st.data, st.idx, st.idx + n, d)]
        ELSE [st EXCEPT !.raised = TRUE]

\* The simple branch recomputing the flag: self.full = False
SimpleBranch_clearfull(st, d) ==
    LET n == Len(d.r)
    IN  IF CanAssign(st.data, st.idx, st.idx + n, d)
        THEN [st EXCEPT !.data = Assign(st.data, st.idx, st.idx + n, d),
                        !.idx  = st.idx + n,
                        !.full = FALSE]
        ELSE [st EXCEPT !.raised = TRUE]

\* The simple branch writing at the start of storage: self.data[:len(data)]
SimpleBranch_at0(st, d) ==
    LET n == Len(d.r)
    IN  IF CanAssign(st.data, 0, n, d)
        THEN [st EXCEPT !.data = Assign(st.data, 0, n, d),
                        !.idx  = st.idx + n]
        ELSE [st EXCEPT !.raised = TRUE]

\* self.data[self.idx:self.idx+len(data)] = data; self.idx += len(data)
SimpleBranch(st, d) ==
    LET n == Len(d.r)
    IN  IF CanAssign(st.data, st.idx, st.idx + n, d)
        THEN [st EXCEPT !.data = Assign(st.data, st.idx, st.idx + n, d),
                        !.idx  = st.idx + n]
        ELSE [st EXCEPT !.raised = TRUE]

\* The wrap branch without self.full = True
WrapBranch_nofull(st, d, cap) ==
    LET n    == Len(d.r)
        l1   == cap - st.idx
        l2   == n - l1
        src1 == SliceTo(d, l1)
        src2 == SliceFrom(d, l1)
        end  == Len(st.data.r)
        d1   == Assign(st.data, -l1, end, src1)
        d2   == Assign(d1, 0, l2, src2)
    IN  IF ~CanAssign(st.data, -l1, end, src1)
        THEN [st EXCEPT !.raised = TRUE]
        ELSE IF ~CanAssign(d1, 0, l2, src2)
        THEN [st EXCEPT !.data = d1, !.raised = TRUE]
        ELSE [st EXCEPT !.data = d2, !.idx = l2]

\* The wrap branch ending with self.idx = l1
WrapBranch_idx(st, d, cap) ==
    LET n    == Len(d.r)
        l1   == cap - st.idx
        l2   == n - l1
        src1 == SliceTo(d, l1)
        src2 == SliceFrom(d, l1)
        end  == Len(st.data.r)
        s0   == [st EXCEPT !.full = TRUE]
        d1   == Assign(st.data, -l1, end, src1)
        d2   == Assign(d1, 0, l2, src2)
    IN  IF ~CanAssign(st.data, -l1, end, src1)
        THEN [s0 EXCEPT !.raised = TRUE]
        ELSE IF ~CanAssign(d1, 0, l2, src2)
        THEN [s0 EXCEPT !.data = d1, !.raised = TRUE]
        ELSE [s0 EXCEPT !.data = d2, !.idx = l1]

\* self.full = True; the two copies around the physical end; self.idx = l2
WrapBranch(st, d, cap) ==
    LET n    == Len(d.r)
        l1   == cap - st.idx
        l2   == n - l1
        src1 == SliceTo(d, l1)
        src2 == SliceFrom(d, l1)
        end  == Len(st.data.r)
        s0   == [st EXCEPT !.full = TRUE]
        d1   == Assign(st.data, -l1, end, src1)
        d2   == Assign(d1, 0, l2, src2)
    IN  IF ~CanAssign(st.data, -l1, end, src1)
        THEN [s0 EXCEPT !.raised = TRUE]
        ELSE IF ~CanAssign(d1, 0, l2, src2)
        THEN [s0 EXCEPT !.data = d1, !.raised = TRUE]
        ELSE [s0 EXCEPT !.data = d2, !.idx = l2]

\* append without the early return on empty input
AppendResult_noreturn(st, d, cap) ==
    LET t == Truncate(d, cap)
    IN  IF Fits(st.idx, Len(t.r), cap) THEN SimpleBranch(st, t)
        ELSE WrapBranch(st, t, cap)

\* The fields after self.append(d), raised telling whether it threw
AppendResult(st, d, cap) ==
    LET t == Truncate(d, cap)
    IN  IF Len(t.r) = 0 THEN st
        ELSE IF Fits(st.idx, Len(t.r), cap) THEN SimpleBranch(st, t)
        ELSE WrapBranch(st, t, cap)

\* Chunks of n rows of the buffer's width
Chunks(n) == {[w |-> shape[2], r |-> rs] : rs \in [1..n -> RowsOf(shape[2])]}

append(d) ==
    /\ built = "ok"
    /\ LET res == AppendResult(Fields, d, shape[1])
       IN  /\ data' = res.data
           /\ full' = res.full
           /\ idx' = res.idx
           /\ raised' = res.raised
    /\ hist' = hist \o d.r
    /\ calls' = Append(calls, Len(d.r))
    /\ UNCHANGED <<built, shape, ret, retval>>

\* -------------------------------------------------------------------- get
\* The two halves concatenated the other way round
GetFull_swapped(d, i) ==
    Owned(Concatenate(Deref(BasicSlice(0, i), d),
                      Deref(BasicSlice(i, Len(d.r)), d)))

\* np.concatenate([self.data[self.idx:], self.data[:self.idx]], axis=0)
GetFull(d, i) ==
    Owned(Concatenate(Deref(BasicSlice(i, Len(d.r)), d),
                      Deref(BasicSlice(0, i), d)))

\* The slice returned without .copy()
GetNotFull_view(d, i) == BasicSlice(0, i)

\* self.data[:self.idx].copy()
GetNotFull(d, i) == Copy(BasicSlice(0, i), d)

GetResult(d, f, i) == IF f THEN GetFull(d, i) ELSE GetNotFull(d, i)

\* The objects a get() can hand out: rows nobody wrote read as anything
Returned(obj) ==
    IF obj.view THEN {obj}
    ELSE {Owned([w |-> obj.own.w, r |-> rs]) : rs \in Reads(obj.own.r, obj.own.w)}

\* A get() that drains the buffer: the cursor and the flag are reset
get_consume ==
    /\ built = "ok"
    /\ \E obj \in Returned(GetResult(data, full, idx)) :
          /\ ret' = obj
          /\ retval' = Deref(obj, data)
    /\ idx' = 0
    /\ full' = FALSE
    /\ UNCHANGED <<built, shape, data, raised, hist, calls>>

get ==
    /\ built = "ok"
    /\ \E obj \in Returned(GetResult(data, full, idx)) :
          /\ ret' = obj
          /\ retval' = Deref(obj, data)
    /\ UNCHANGED <<built, shape, data, full, idx, raised, hist, calls>>

\* ------------------------------------------------------------ the program
Shapes == (-1..MaxCap) \X (-1..MaxCh)

Next ==
    \/ \E s \in Shapes : RingBufferInit(s)
    \/ /\ Len(calls) < MaxCalls
       /\ \E n \in 0..(MaxTotal - Len(hist)) : \E d \in Chunks(n) : append(d)
    \/ get

Spec == Init /\ [][Next]_vars

\* A caller that appends the sample stream 1, 2, 3, ... in chunks of any
\* length to a one-channel buffer: the next n rows of the stream
StreamChunkOf(n) == [w |-> 1, r |-> [i \in 1..n |-> <<Len(hist) + i>>]]

StreamNext ==
    \/ \E c \in -1..StreamCap : RingBufferInit(<<c, 1>>)
    \/ /\ Len(calls) < StreamCalls
       /\ \E n \in 0..Min(StreamChunk, StreamTotal - Len(hist)) :
             append(StreamChunkOf(n))
    \/ get

StreamSpec == Init /\ [][StreamNext]_vars

\* A caller that passes rows of any width, the buffer's or another:
\* chunks of n rows of one width in 0..MaxCh+1
WidthChunks(n) ==
    UNION {{[w |-> c, r |-> rs] : rs \in [1..n -> RowsOf(c)]} :
              c \in 0..(MaxCh + 1)}

WidthNext ==
    \/ \E s \in Shapes : RingBufferInit(s)
    \/ /\ Len(calls) < MaxCalls
       /\ \E n \in 0..(WidthTotal - Len(hist)) :
             \E d \in WidthChunks(n) : append(d)
    \/ get

WidthSpec == Init /\ [][WidthNext]_vars

TypeOK ==
    /\ built \in {"none", "ok", "error"}
    /\ full \in BOOLEAN
    /\ raised \in BOOLEAN
    /\ idx \in Nat
    /\ Len(hist) <= MaxTotal
    /\ Len(calls) <= MaxCalls

\* ------------------------------------------------------------- properties
\* The last k rows of s
LastRows(s, k) == SubSeq(s, Len(s) - k + 1, Len(s))

\* The row sequences a get() called on the fields st can return
RowsOf_get(st) ==
    {Deref(o, st.data).r : o \in Returned(GetResult(st.data, st.full, st.idx))}

\* The row sequences a get() called now can return
GetRows == RowsOf_get(Fields)

LastCall == calls[Len(calls)]

\* C1: with capacity >= 1, after any appends get() returns exactly the last
\* min(T, capacity) rows of everything passed to append, oldest first.
C1_LastRows ==
    (built = "ok" /\ shape[1] >= 1)
        => GetRows = {LastRows(hist, Min(Len(hist), shape[1]))}

\* A get() after an oversized chunk and another append returned the last
\* capacity rows, two of them different.
C1_Witness ==
    /\ built = "ok" /\ shape[1] = 2
    /\ Len(calls) >= 2
    /\ \E i \in DOMAIN calls : calls[i] > shape[1]
    /\ Len(hist) > shape[1]
    /\ retval.r = LastRows(hist, shape[1])
    /\ retval.r[1] # retval.r[2]

\* C2: get() never returns more than capacity rows, and returns exactly
\* capacity rows once at least capacity rows were passed to append.
C2_CapacityBound ==
    built = "ok" =>
        \A rs \in GetRows :
            /\ Len(rs) <= shape[1]
            /\ (Len(hist) >= shape[1] => Len(rs) = shape[1])

\* A get() after three appends of more than capacity rows in total returned
\* capacity rows.
C2_Witness ==
    /\ built = "ok" /\ shape[1] >= 2
    /\ Len(calls) = 3
    /\ Len(hist) > shape[1]
    /\ full
    /\ Len(retval.r) = shape[1]

\* C3: after C rows were appended to a new buffer of capacity C and then one
\* more row x, get() returns the rows without the oldest, x last.
C3_Overwrite ==
    (/\ built = "ok" /\ shape[1] >= 1
     /\ calls # <<>> /\ LastCall = 1
     /\ Len(hist) = shape[1] + 1)
        => GetRows = {Tail(hist)}

\* Capacity 3: three rows in one append, a fourth in the next, then get().
C3_Witness ==
    /\ built = "ok" /\ shape[1] = 3
    /\ calls = <<3, 1>>
    /\ retval.r = Tail(hist)
    /\ hist[1] # hist[4]

\* The fields after one append call per row of rows, in order
RECURSIVE AppendEach(_, _, _, _)
AppendEach(st, rows, c, cap) ==
    IF rows = <<>> THEN st
    ELSE AppendEach(AppendResult(st, [w |-> c, r |-> <<Head(rows)>>], cap),
                    Tail(rows), c, cap)

\* C4: an append of more than capacity rows keeps exactly the last capacity
\* rows of its input, in order, and the following get() returns what it
\* returns after appending the same rows one per call from the same state.
C4_Oversized ==
    [][(built = "ok" /\ calls' # calls /\ calls'[Len(calls')] > shape[1]) =>
          LET n == calls'[Len(calls')]
              d == LastRows(hist', n)
          IN  /\ GetRows' = {LastRows(d, shape[1])}
              /\ GetRows' = RowsOf_get(AppendEach(Fields, d, shape[2], shape[1]))
      ]_vars

\* Capacity 2, one row stored, then a single append of four rows: the
\* buffer holds the last two of them.
C4_Witness ==
    /\ built = "ok" /\ shape[1] = 2
    /\ calls = <<1, 4>>
    /\ GetRows = {LastRows(hist, 2)}
    /\ hist[4] # hist[5]
    /\ hist[2] # hist[4]

\* C5: capacity N, k rows appended to a new buffer and then the other N-k,
\* 1 <= k <= N-1: get() returns all N rows in their original order.
C5_BoundaryWrap ==
    (/\ built = "ok"
     /\ Len(calls) = 2 /\ calls[1] >= 1 /\ calls[2] >= 1
     /\ calls[1] + calls[2] = shape[1])
        => GetRows = {hist}

\* Capacity 3 filled as 1 + 2 rows: the cursor is back at 0, the buffer is
\* full and get() returned the three rows.
C5_Witness ==
    /\ built = "ok" /\ shape[1] = 3
    /\ calls = <<1, 2>>
    /\ idx = 0 /\ full
    /\ retval.r = hist
    /\ hist[1] # hist[2]

\* C6: n <= capacity rows appended to a new buffer in one call are returned
\* by get() exactly, in order.
C6_OrderPreserved ==
    (built = "ok" /\ Len(calls) = 1 /\ calls[1] <= shape[1])
        => GetRows = {hist}

\* Capacity 3, two rows in one append (the buffer is not full), then get().
C6_Witness ==
    /\ built = "ok" /\ shape[1] = 3
    /\ calls = <<2>>
    /\ ~full
    /\ retval.r = hist
    /\ hist[1] # hist[2]

\* C7: an append of zero rows leaves write index, full flag and storage as
\* they were, and with them what get() returns.
C7_EmptyAppend ==
    [][(built = "ok" /\ calls' = Append(calls, 0)) =>
          /\ idx' = idx
          /\ full' = full
          /\ data' = data
          /\ GetRows' = GetRows
      ]_vars

\* An empty append was the last call on a full buffer whose cursor is not 0.
C7_Witness ==
    /\ built = "ok" /\ shape[1] >= 2
    /\ calls # <<>> /\ LastCall = 0
    /\ full /\ idx > 0
    /\ ~raised

\* C8: the rows of an object get() returned stay what they were, whatever
\* is appended afterwards.
C8_IndependentCopy == Deref(ret, data) = retval

\* get() returned rows of a buffer that was not full; later appends filled
\* the buffer and overwrote the storage rows the result had been read from.
C8_Witness ==
    /\ built = "ok" /\ full
    /\ retval.r # <<>>
    /\ Len(retval.r) < shape[1]
    /\ SubSeq(data.r, 1, Len(retval.r)) # retval.r

\* C9: no RingBuffer with capacity <= 0 is ever constructed.
C9_NoZeroCapacity == built = "ok" => shape[1] >= 1

\* C10: with capacity >= 1 the write index is always in [0, capacity).
C10_IndexInRange ==
    (built = "ok" /\ shape[1] >= 1) => (0 <= idx /\ idx < shape[1])

\* Three appends of one row filled capacity 3 exactly to its physical end:
\* the cursor is at 0, not at 3.
C10_Witness ==
    /\ built = "ok" /\ shape[1] = 3
    /\ calls = <<1, 1, 1>>
    /\ idx = 0 /\ full

\* C11: full is false after construction, and once true it stays true.
C11_FullMonotonic ==
    [][/\ (built = "none" /\ built' = "ok") => ~full'
       /\ (built = "ok" /\ full) => full'
      ]_vars

\* A full buffer took an empty append and then a one-row append that did
\* not reach the physical end, and is still full.
C11_Witness ==
    /\ built = "ok" /\ shape[1] = 3
    /\ calls = <<3, 0, 1>>
    /\ idx = 1
    /\ full

\* The rows numbered lo..hi of the stream
Stream(lo, hi) == [i \in 1..(hi - lo + 1) |-> <<lo + i - 1>>]

\* C12: capacity 4, one channel, stream 1, 2, ...: after append of 3 rows
\* get() is 1..3 and full is false; after 2 more get() is 2..5 and full is
\* true; after 5 more get() is 7..10.
C12_Scenario ==
    (built = "ok" /\ shape = <<4, 1>>) =>
        /\ calls = <<3>> => (GetRows = {Stream(1, 3)} /\ ~full)
        /\ calls = <<3, 2>> => (GetRows = {Stream(2, 5)} /\ full)
        /\ calls = <<3, 2, 5>> => GetRows = {Stream(7, 10)}

\* The scenario ran to its end and get() returned rows 7..10.
C12_Witness ==
    /\ built = "ok" /\ shape = <<4, 1>>
    /\ calls = <<3, 2, 5>>
    /\ hist = Stream(1, 10)
    /\ retval.r = <<<<7>>, <<8>>, <<9>>, <<10>>>>

\* A step that is a call of append
AppendStep == built = "ok" /\ calls' # calls

\* The chunk of the buffer's width that the append step was called with
StepChunk ==
    [w |-> shape[2], r |-> LastRows(hist', calls'[Len(calls')])]

\* The number of rows of a[start:stop]
SliceLen(a, start, stop) == Len(Slice(a, start, stop).r)

\* C13: with capacity >= 1 and rows of the buffer's width no append raises,
\* whatever the input length: empty input changes nothing, longer input is
\* cut to capacity, and every slice assignment copies as many rows as its
\* destination has.
C13_AppendNeverFails ==
    [][(AppendStep /\ shape[1] >= 1) =>
          LET cap == shape[1]
              t   == Truncate(StepChunk, cap)
              n   == Len(t.r)
              l1  == cap - idx
              l2  == n - l1
          IN  /\ ~raised'
              /\ n <= cap
              /\ n = 0 => (data' = data /\ idx' = idx /\ full' = full)
              /\ (n > 0 /\ idx + n < cap) => SliceLen(data, idx, idx + n) = n
              /\ (n > 0 /\ idx + n >= cap) =>
                    /\ SliceLen(data, -l1, Len(data.r)) = SliceLen(t, 0, l1)
                    /\ SliceLen(data, 0, l2) = SliceLen(t, l1, Len(t.r))
      ]_vars

\* Capacity 2 took an empty append, a one-row append and an append of three
\* rows that was cut and wrapped, and none of them raised.
C13_Witness ==
    /\ built = "ok" /\ shape[1] = 2
    /\ calls = <<0, 1, 3>>
    /\ ~raised
    /\ full /\ idx = 1
    /\ data.r = <<hist[4], hist[3]>>

\* C14: for 1 <= n <= capacity rows, idx + n < capacity gives idx + n with
\* full unchanged, and idx + n = capacity gives idx = 0 with full true.
C14_StrictLess ==
    [][(AppendStep /\ calls'[Len(calls')] >= 1
                   /\ calls'[Len(calls')] <= shape[1]) =>
          LET n == calls'[Len(calls')]
          IN  /\ idx + n < shape[1] => (idx' = idx + n /\ full' = full)
              /\ idx + n = shape[1] => (idx' = 0 /\ full')
      ]_vars

\* Capacity 3: two rows went in by the simple branch, the third landed
\* exactly on the physical end and sent the cursor to 0.
C14_Witness ==
    /\ built = "ok" /\ shape[1] = 3
    /\ calls = <<2, 1>>
    /\ idx = 0 /\ full
    /\ data.r = hist

\* C15: while full is false, storage rows [0, idx) are all rows appended so
\* far, in order; once full is true every storage row was written by an
\* append, the oldest retained row is at idx and the order runs idx, ...,
\* capacity-1, 0, ..., idx-1.
C15_StorageLayout ==
    built = "ok" =>
        LET cap  == shape[1]
            kept == LastRows(hist, Min(Len(hist), cap))
        IN  /\ ~full =>
                /\ idx = Len(hist)
                /\ \A j \in 1..idx : data.r[j] = hist[j]
            /\ full =>
                /\ \A j \in 1..cap : data.r[j] # Uninit
                /\ \A j \in 0..(cap - 1) :
                      data.r[((idx + j) % cap) + 1] = kept[j + 1]

\* Capacity 3 after 2 + 2 rows: the oldest retained row sits at index 1 and
\* the newest at index 0.
C15_Witness ==
    /\ built = "ok" /\ shape[1] = 3
    /\ calls = <<2, 2>>
    /\ full /\ idx = 1
    /\ data.r = <<hist[4], hist[2], hist[3]>>
    /\ hist[4] # hist[2]

\* A step that is a call of get
GetStep == built = "ok" /\ built' = "ok" /\ calls' = calls

\* C16: get() leaves storage, write index and full flag unchanged, and any
\* two get() calls with no append in between return the same rows.
C16_GetReadOnly ==
    [][GetStep =>
          /\ data' = data /\ idx' = idx /\ full' = full
          /\ GetRows' = GetRows
          /\ GetRows = {retval'.r}
      ]_vars

\* get() was called on a full, wrapped buffer; a get() called now returns
\* the same rows again.
C16_Witness ==
    /\ built = "ok" /\ shape[1] = 3
    /\ calls = <<2, 2, 0>>
    /\ full /\ idx = 1
    /\ retval.r = <<hist[2], hist[3], hist[4]>>
    /\ GetRows = {retval.r}

\* C17: the simple branch changes no storage row outside [idx, idx+n); the
\* wrap branch with n < capacity changes no row in [n - (capacity - idx),
\* idx); storage has capacity rows after every append.
C17_AppendFrame ==
    [][AppendStep =>
          LET cap == shape[1]
              n   == Min(calls'[Len(calls')], cap)
              l2  == n - (cap - idx)
          IN  /\ Len(data'.r) = cap
              /\ (n > 0 /\ idx + n < cap) =>
                    \A j \in 0..(cap - 1) :
                        (j < idx \/ j >= idx + n) => data'.r[j + 1] = data.r[j + 1]
              /\ (n > 0 /\ idx + n >= cap /\ n < cap) =>
                    \A j \in l2..(idx - 1) : data'.r[j + 1] = data.r[j + 1]
      ]_vars

\* Capacity 3 took two single rows by the simple branch and then two rows
\* by the wrap branch: index 2 and index 0 were written, the row at index 1
\* survived.
C17_Witness ==
    /\ built = "ok" /\ shape[1] = 3
    /\ calls = <<1, 1, 2>>
    /\ idx = 1 /\ full
    /\ data.r = <<hist[4], hist[2], hist[3]>>
    /\ hist[4] # hist[1]

\* The sum of min(len(chunk), cap) over the append calls cs
RECURSIVE SumMin(_, _)
SumMin(cs, cap) ==
    IF cs = <<>> THEN 0 ELSE Min(Head(cs), cap) + SumMin(Tail(cs), cap)

\* C18: with capacity >= 1, idx is the sum over all appends of
\* min(len(chunk), capacity), modulo capacity; an append of capacity or
\* more rows leaves idx where it was.
C18_IndexSum ==
    (built = "ok" /\ shape[1] >= 1) => idx = SumMin(calls, shape[1]) % shape[1]

\* Capacity 2 after one row and then three rows: four rows were passed to
\* append, idx is 1 and not 4 mod 2.
C18_Witness ==
    /\ built = "ok" /\ shape[1] = 2
    /\ calls = <<1, 3>>
    /\ idx = 1
    /\ idx # Len(hist) % shape[1]

\* C19: with capacity >= 1, full is true iff at least capacity rows were
\* passed to append; while full is false idx is the number of rows
\* appended, below capacity, and get() returns idx rows.
C19_FullIffTotal ==
    (built = "ok" /\ shape[1] >= 1) =>
        /\ full <=> Len(hist) >= shape[1]
        /\ ~full =>
              /\ idx = Len(hist)
              /\ idx < shape[1]
              /\ \A rs \in GetRows : Len(rs) = idx

\* Capacity 3 reached exactly three rows in three calls, one of them empty,
\* and is full.
C19_Witness ==
    /\ built = "ok" /\ shape[1] = 3
    /\ calls = <<1, 0, 2>>
    /\ Len(hist) = shape[1]
    /\ full

\* C20: an append that raises leaves storage, write index and full flag as
\* they were before the call (stated for buffers of capacity >= 1, where
\* the copy is rejected because the rows do not have the buffer's width).
C20_FailedAppendUnchanged ==
    [][(AppendStep /\ shape[1] >= 1 /\ raised') =>
          (data' = data /\ idx' = idx /\ full' = full)
      ]_vars

====
